---- MODULE Spec2Model ----
(***************************************************************************)
(* Model of gen.py: the GenImages class (cached SVG source, recolouring by *)
(* text replacement, save = makedirs + svg2png + write), generate_logos    *)
(* (the colour x size batch), write_readme (the Markdown table) and main.  *)
(*                                                                         *)
(* Text is modelled as sequences of one-character strings, so that         *)
(* str.replace, str.split, os.path.dirname/basename and the f-string       *)
(* formatting of sizes are computed as the code computes them.             *)
(*                                                                         *)
(* The filesystem is a set of existing directories (relative to the        *)
(* working directory) and a map from file paths to contents.  Assumptions: *)
(* no path component is a regular file and no permission error happens on  *)
(* output directories.  The rasterizer (cairosvg.svg2png) is external: it  *)
(* either returns bytes determined by its arguments or raises.             *)
(***************************************************************************)
EXTENDS Integers, Sequences, FiniteSets, TLC

VARIABLES
    src,              \* content of the file at svg_src, or NoFile
    dirs,             \* existing directories
    files,            \* output files: path -> content
    svg_cache,        \* GenImages._svg_cache
    trace,            \* log of save calls and of filesystem/rasterizer operations
    err,              \* "none", or where the unhandled exception was raised
    stdout,           \* lines printed
    pc,               \* position of main
    ci,               \* index of the outer loop of generate_logos (colors)
    si,               \* index of the inner loop of generate_logos (sizes)
    generated_files,  \* generate_logos' local list
    returned,         \* the list main received from generate_logos, or NotReturned
    dirs0,            \* the directories at the start (history)
    files0,           \* the files at the start (history)
    call              \* the last call made on the API and its result

vars == <<src, dirs, files, svg_cache, trace, err, stdout, pc, ci, si,
          generated_files, returned, dirs0, files0, call>>

----------------------------------------------------------------------------
(* Bounds of the model *)

MaxDocLen == 4
MaxCalls == 2
MaxFiles == 2

----------------------------------------------------------------------------
(* Values *)

\* sentinels, of the shape of the values they stand in for
NoFile == <<"NoFile">>
None == <<"None">>
NotReturned == <<<<"NotReturned">>>>

Digits == <<"0", "1", "2", "3", "4", "5", "6", "7", "8", "9">>

\* f"{size}": the decimal digits of a non-negative integer
RECURSIVE ToStr(_)
ToStr(n) == IF n < 10 THEN <<Digits[n + 1]>>
            ELSE ToStr(n \div 10) \o <<Digits[(n % 10) + 1]>>

\* the positions at which old occurs in s
Occurs(s, old, i) ==
    /\ i >= 1
    /\ i + Len(old) - 1 <= Len(s)
    /\ \A k \in 1..Len(old) : s[i + k - 1] = old[k]

\* str.find(old, start): the first position >= i at which old occurs, or 0
RECURSIVE Find(_, _, _)
Find(s, old, i) ==
    IF i + Len(old) - 1 > Len(s) THEN 0
    ELSE IF Occurs(s, old, i) THEN i
    ELSE Find(s, old, i + 1)

\* str.replace with a non-empty old: left to right, non-overlapping
RECURSIVE ReplaceFrom(_, _, _, _)
ReplaceFrom(s, old, new, i) ==
    LET j == Find(s, old, i)
    IN  IF j = 0 THEN SubSeq(s, i, Len(s))
        ELSE SubSeq(s, i, j - 1) \o new \o ReplaceFrom(s, old, new, j + Len(old))

\* str.replace with an empty old: new goes before every character and at the end
RECURSIVE Interleave(_, _, _)
Interleave(s, new, i) ==
    IF i > Len(s) THEN new
    ELSE new \o <<s[i]>> \o Interleave(s, new, i + 1)

\* a mutant of StrReplace: only the first occurrence is replaced
StrReplaceFirstOnly(s, old, new) ==
    LET j == Find(s, old, 1)
    IN  IF j = 0 THEN s
        ELSE SubSeq(s, 1, j - 1) \o new \o SubSeq(s, j + Len(old), Len(s))

\* a mutant of StrReplace: the match is dropped when it equals the replacement
StrReplaceDropSame(s, old, new) ==
    IF old = <<>> THEN Interleave(s, new, 1)
    ELSE ReplaceFrom(s, old, IF new = old THEN <<>> ELSE new, 1)

\* s.replace(old, new)
StrReplace(s, old, new) ==
    IF old = <<>> THEN Interleave(s, new, 1)
    ELSE ReplaceFrom(s, old, new, 1)

\* s.rfind(ch) for a single character, 0 when absent
RECURSIVE RFind(_, _, _)
RFind(s, ch, i) ==
    IF i = 0 THEN 0
    ELSE IF s[i] = ch THEN i
    ELSE RFind(s, ch, i - 1)

\* s.rstrip('/')
RECURSIVE RStripSlash(_)
RStripSlash(s) ==
    IF s # <<>> /\ s[Len(s)] = "/" THEN RStripSlash(SubSeq(s, 1, Len(s) - 1))
    ELSE s

\* os.path.dirname (posixpath)
Dirname(p) ==
    LET i == RFind(p, "/", Len(p))
        head == SubSeq(p, 1, i)
    IN  IF head # <<>> /\ \E k \in 1..Len(head) : head[k] # "/"
        THEN RStripSlash(head)
        ELSE head

\* os.path.basename (posixpath)
Basename(p) == SubSeq(p, RFind(p, "/", Len(p)) + 1, Len(p))

\* os.path.join(a, b) for a relative b
Join(a, b) ==
    IF a = <<>> \/ a[Len(a)] = "/" THEN a \o b
    ELSE a \o <<"/">> \o b

\* s.split(ch) for a single character: the list of the parts
RECURSIVE Split(_, _)
Split(s, ch) ==
    LET j == Find(s, <<ch>>, 1)
    IN  IF j = 0 THEN <<s>>
        ELSE <<SubSeq(s, 1, j - 1)>> \o Split(SubSeq(s, j + 1, Len(s)), ch)


----------------------------------------------------------------------------
(* Program constants *)

\* main: svg_path
SvgPath == <<".", "/", "l", "o", "g", "o", "/", "a", "s", "s", "e", "t", "-", "s", "v", "g", "/", "l", "o", "g", "o", ".", "s", "v", "g">>

\* replace_colors: the default of original_color
DefaultColor == <<"#", "0", "0", "6", "3", "b", "e">>

\* save: the default of ext
DefaultExt == <<"p", "n", "g">>

Dark == <<"#", "4", "5", "4", "6", "4", "7">>
Light == <<"#", "E", "B", "E", "B", "E", "B">>
White == <<"#", "F", "F", "F">>
Black == <<"#", "0", "0", "0">>
Primary == <<"#", "0", "0", "6", "3", "B", "E">>
Secondary == <<"#", "3", "E", "7", "8", "B", "2">>

\* a mutant of COLOR_MAPPING: two colours share a name
ColorMappingClash(color) ==
    CASE color = White -> <<"w", "h", "i", "t", "e">>
      [] color = Black -> <<"d", "a", "r", "k">>
      [] color = Primary -> <<"p", "r", "i", "m", "a", "r", "y">>
      [] color = Secondary -> <<"s", "e", "c", "o", "n", "d", "a", "r", "y">>
      [] color = Dark -> <<"d", "a", "r", "k">>
      [] color = Light -> <<"l", "i", "g", "h", "t">>

\* generate_logos: COLOR_MAPPING[color]; a missing key has no value (KeyError)
COLOR_MAPPING(color) ==
    CASE color = White -> <<"w", "h", "i", "t", "e">>
      [] color = Black -> <<"b", "l", "a", "c", "k">>
      [] color = Primary -> <<"p", "r", "i", "m", "a", "r", "y">>
      [] color = Secondary -> <<"s", "e", "c", "o", "n", "d", "a", "r", "y">>
      [] color = Dark -> <<"d", "a", "r", "k">>
      [] color = Light -> <<"l", "i", "g", "h", "t">>

colors == <<Dark, Light, White, Black, Primary, Secondary>>
sizes == <<16, 32, 64, 100, 128, 512, 1024, 2048>>

FaviconPrefix == <<"l", "o", "g", "o", "/", "f", "a", "v", "i", "c", "o", "n", "/", "f", "a", "v", "i", "c", "o", "n", "-">>
StandarPrefix == <<"l", "o", "g", "o", "/", "s", "t", "a", "n", "d", "a", "r", "/">>
DotPng == <<".", "p", "n", "g">>
ReadmeName == <<"R", "E", "A", "D", "M", "E", ".", "m", "d">>
ReadmeDir == <<".", "/">>
BaseUrl == <<"https://github.com/unexpo-poz/brand/blob/main/logo/icon/">>
RawTrue == <<"?", "r", "a", "w", "=", "t", "r", "u", "e">>
DoneMessage == "Logo images generated successfully!"

\* generate_logos: the favicon condition
FaviconRule(color, size) == size <= 128 /\ color = Primary

\* a mutant of StandardRule: the boundary size is left out
StandardRuleStrict(size) == size > 512

\* generate_logos: the standard-variant condition
StandardRule(size) == size >= 512

\* generate_logos: output_path of the favicon variant (without extension)
FaviconOutput(size) == FaviconPrefix \o ToStr(size)

\* generate_logos: output_path of the standard variant (without extension)
StandardOutput(color_type, size) == StandarPrefix \o color_type \o <<"-">> \o ToStr(size)

----------------------------------------------------------------------------
(* The GenImages instance and the filesystem, as a record the operations    *)
(* thread through: [dirs, files, cache, trace, err, ret]                    *)

Ent(op, path, arg, width) == [op |-> op, path |-> path, arg |-> arg, width |-> width]

PngContent(svg, width) == [kind |-> "png", svg |-> svg, width |-> width, rows |-> <<>>]
MdContent(rows) == [kind |-> "md", svg |-> <<>>, width |-> 0, rows |-> rows]
OldContent(kind) == [kind |-> kind, svg |-> <<"o", "l", "d">>, width |-> 0, rows |-> <<>>]

World == [dirs |-> dirs, files |-> files, cache |-> svg_cache, trace |-> trace,
          err |-> "none", ret |-> <<>>]

Failed(w) == w.err # "none"

Raise(w, where) == [w EXCEPT !.err = where]

Log(w, e) == [w EXCEPT !.trace = Append(@, e)]

\* the directories os.makedirs(name) leaves existing: name and its ancestors
Ancestors(name) ==
    {SubSeq(name, 1, k) : k \in {j \in 1..Len(name) :
        /\ name[j] # "/"
        /\ (j = Len(name) \/ name[j + 1] = "/")}}

\* the directory exists: the working directory always does
DirExists(ds, d) == d = <<>> \/ d = <<".">> \/ d \in ds

\* os.makedirs(name, exist_ok=True): an empty name raises FileNotFoundError
Makedirs(w, name) ==
    IF name = <<>> THEN Raise(Log(w, Ent("makedirs", name, <<>>, 0)), "makedirs")
    ELSE Log([w EXCEPT !.dirs = @ \cup Ancestors(name)], Ent("makedirs", name, <<>>, 0))

\* open(path, "w"/"wb") and write: the file is created or truncated
WriteFile(w, path, content, arg, width) ==
    IF ~DirExists(w.dirs, Dirname(path)) THEN Raise(w, "open_output")
    ELSE Log([w EXCEPT !.files = [p \in DOMAIN @ \cup {path} |->
                                      IF p = path THEN content ELSE @[p]]],
             Ent("write", path, arg, width))

\* a mutant of GetSvg: the file is read on every call
GetSvgNoCache(w) ==
    IF src = NoFile THEN Raise(w, "read_source")
    ELSE Log([w EXCEPT !.cache = src, !.ret = src], Ent("read", SvgPath, src, 0))

\* GenImages.__get_svg: the cached text, read from the file when there is none
GetSvg(w) ==
    IF w.cache = None
    THEN IF src = NoFile THEN Raise(w, "read_source")
         ELSE Log([w EXCEPT !.cache = src, !.ret = src], Ent("read", SvgPath, src, 0))
    ELSE [w EXCEPT !.ret = w.cache]

\* GenImages.replace_colors
ReplaceColors(w, color_, original_color) ==
    LET w1 == GetSvg(w)
    IN  IF Failed(w1) THEN w1
        ELSE [w1 EXCEPT !.ret = StrReplace(w1.ret, original_color, color_)]

\* cairosvg.svg2png(bytestring, output_width, scale=1, background_color): external;
\* ok says whether it returns or raises
Svg2Png(w, bytestring, output_width, ok) ==
    IF ok THEN Log([w EXCEPT !.ret = PngContent(bytestring, output_width)],
                   Ent("svg2png", <<>>, bytestring, output_width))
    ELSE Raise(Log(w, Ent("svg2png", <<>>, bytestring, output_width)), "svg2png")

\* a mutant of Save: the output file is opened (created empty) before the
\* document is read and rasterized
SaveOpenFirst(w, foreground_color, output, output_width, ext, ok) ==
    LET d == Dirname(output)
        w0 == Log(w, Ent("save", output, foreground_color, output_width))
        w1 == Makedirs(w0, IF d # <<>> THEN d ELSE Dirname(output))
        output_path == output \o <<".">> \o ext
        w2 == WriteFile(w1, output_path, PngContent(<<>>, 0), foreground_color, output_width)
        w3 == ReplaceColors(w2, foreground_color, DefaultColor)
        w4 == Svg2Png(w3, w3.ret, output_width, ok)
    IN  IF Failed(w1) THEN w1
        ELSE IF Failed(w2) THEN w2
        ELSE IF Failed(w3) THEN w3
        ELSE IF Failed(w4) THEN w4
        ELSE [w4 EXCEPT !.files[output_path] = w4.ret, !.ret = <<>>]

\* GenImages.save
Save(w, foreground_color, output, output_width, ext, ok) ==
    LET d == Dirname(output)
        w0 == Log(w, Ent("save", output, foreground_color, output_width))
        w1 == Makedirs(w0, IF d # <<>> THEN d ELSE Dirname(output))
        w2 == ReplaceColors(w1, foreground_color, DefaultColor)
        w3 == Svg2Png(w2, w2.ret, output_width, ok)
        output_path == output \o <<".">> \o ext
        w4 == WriteFile(w3, output_path, w3.ret, foreground_color, output_width)
    IN  IF Failed(w1) THEN w1
        ELSE IF Failed(w2) THEN w2
        ELSE IF Failed(w3) THEN w3
        ELSE [w4 EXCEPT !.ret = <<>>]

\* a mutant of SizeLabel: the part before the first '-' is taken
SizeLabelFirstPart(file_name) ==
    Split(Split(file_name, "-")[1], ".")[1]

\* write_readme: size = file_name.split('-')[-1].split('.')[0]
SizeLabel(file_name) ==
    LET parts == Split(file_name, "-")
    IN  Split(parts[Len(parts)], ".")[1]

\* write_readme: the fields interpolated into one table row
Row(image_file) ==
    LET file_name == Basename(image_file)
    IN  [file_name |-> file_name,
         size |-> SizeLabel(file_name),
         file_url |-> BaseUrl \o file_name \o RawTrue]

\* write_readme
WriteReadme(w, directory, image_files) ==
    LET rows == [i \in 1..Len(image_files) |-> Row(image_files[i])]
        readme_path == Join(directory, ReadmeName)
    IN  WriteFile(w, readme_path, MdContent(rows), <<>>, 0)

----------------------------------------------------------------------------
(* The run of main *)

LogoDir == <<"l", "o", "g", "o">>
AssetDir == <<"l", "o", "g", "o", "/", "a", "s", "s", "e", "t", "-", "s", "v", "g">>
StandarDir == <<"l", "o", "g", "o", "/", "s", "t", "a", "n", "d", "a", "r">>
FaviconDir == <<"l", "o", "g", "o", "/", "f", "a", "v", "i", "c", "o", "n">>

\* main: the path write_readme writes, os.path.join("./", "README.md")
ReadmePath == Join(ReadmeDir, ReadmeName)

NoFiles == [p \in {} |-> OldContent("png")]
OldReadme == [p \in {ReadmePath} |-> OldContent("md")]
OldRun == [p \in {ReadmePath, StandardOutput(COLOR_MAPPING(Dark), 512) \o DotPng} |->
              IF p = ReadmePath THEN OldContent("md") ELSE OldContent("png")]

\* source documents of the run: one holding the default colour, one without it
MainDocs == {<<"<">> \o DefaultColor \o <<">">>, <<"<", ">">>}

\* the filesystems a run may start from; a readable source lies in logo/asset-svg
InitFs == {<<{}, NoFiles>>,
           <<{}, OldReadme>>,
           <<{LogoDir, AssetDir}, NoFiles>>,
           <<{LogoDir, AssetDir}, OldReadme>>,
           <<{LogoDir, AssetDir, StandarDir, FaviconDir}, NoFiles>>,
           <<{LogoDir, AssetDir, StandarDir, FaviconDir}, OldRun>>}

NoCall == [op |-> "none", color |-> <<>>, original |-> <<>>, output |-> <<>>,
           width |-> 0, ext |-> <<>>, list |-> <<>>, ok |-> TRUE, ret |-> <<>>, n |-> 0]

\* main up to the call of generate_logos: GenImages(svg_path), the loop not begun
Init ==
    /\ src \in MainDocs \cup {NoFile}
    /\ \E fs \in InitFs :
        /\ (src # NoFile => AssetDir \in fs[1])
        /\ dirs = fs[1]
        /\ files = fs[2]
    /\ dirs0 = dirs
    /\ files0 = files
    /\ svg_cache = None
    /\ trace = <<>>
    /\ err = "none"
    /\ stdout = <<>>
    /\ pc = "generate_logos"
    /\ ci = 1
    /\ si = 1
    /\ generated_files = <<>>
    /\ returned = NotReturned
    /\ call = NoCall

\* the world after an operation
SetWorld(w) ==
    /\ dirs' = w.dirs
    /\ files' = w.files
    /\ svg_cache' = w.cache
    /\ trace' = w.trace
    /\ err' = w.err

\* a mutant of Advance: the sizes are the outer loop
AdvanceSizeMajor(c, s) ==
    IF c < Len(colors) THEN <<c + 1, s>> ELSE <<1, s + 1>>

\* generate_logos: the nested for loops, colors outside and sizes inside
Advance(c, s) ==
    IF s < Len(sizes) THEN <<c, s + 1>> ELSE <<c + 1, 1>>

\* a mutant of Propagate: the exception of one item is swallowed
PropagateNever(w, here) == here

\* no try/except anywhere: an exception raised in a call ends the run
Propagate(w, here) == IF Failed(w) THEN "crashed" ELSE here

\* generate_logos: one pass through the body of the inner loop, for
\* (colors[ci], sizes[si]); an exception of save ends the run
LoopStep ==
    /\ pc = "generate_logos"
    /\ ci <= Len(colors)
    /\ si <= Len(sizes)
    /\ \E ok1, ok2 \in BOOLEAN :
        LET color == colors[ci]
            color_type == COLOR_MAPPING(color)
            size == sizes[si]
            fav == FaviconRule(color, size)
            w1 == IF fav THEN Save(World, color, FaviconOutput(size), size, DefaultExt, ok1)
                  ELSE World
            g1 == IF fav /\ ~Failed(w1)
                  THEN Append(generated_files, FaviconOutput(size) \o DotPng)
                  ELSE generated_files
            std == ~Failed(w1) /\ StandardRule(size)
            w2 == IF std THEN Save(w1, color, StandardOutput(color_type, size), size, DefaultExt, ok2)
                  ELSE w1
            g2 == IF std /\ ~Failed(w2)
                  THEN Append(g1, StandardOutput(color_type, size) \o DotPng)
                  ELSE g1
            nxt == Advance(ci, si)
        IN  /\ SetWorld(w2)
            /\ generated_files' = g2
            /\ pc' = Propagate(w2, pc)
            /\ IF pc' = "crashed"
               THEN UNCHANGED <<ci, si>>
               ELSE ci' = nxt[1] /\ si' = nxt[2]
    /\ UNCHANGED <<src, stdout, returned, dirs0, files0, call>>

\* generate_logos: return generated_files, received by main
ReturnFiles ==
    /\ pc = "generate_logos"
    /\ ci > Len(colors)
    /\ returned' = generated_files
    /\ pc' = "write_readme"
    /\ UNCHANGED <<src, dirs, files, svg_cache, trace, err, stdout, ci, si,
                   generated_files, dirs0, files0, call>>

\* main: write_readme("./", generated_files)
MainWriteReadme ==
    /\ pc = "write_readme"
    /\ LET w == WriteReadme(World, ReadmeDir, returned)
       IN  /\ SetWorld(w)
           /\ pc' = Propagate(w, "print")
    /\ UNCHANGED <<src, stdout, ci, si, generated_files, returned, dirs0, files0, call>>

\* main: print("Logo images generated successfully!")
MainPrint ==
    /\ pc = "print"
    /\ stdout' = Append(stdout, DoneMessage)
    /\ pc' = "done"
    /\ UNCHANGED <<src, dirs, files, svg_cache, trace, err, ci, si,
                   generated_files, returned, dirs0, files0, call>>

Next == LoopStep \/ ReturnFiles \/ MainWriteReadme \/ MainPrint

Spec == Init /\ [][Next]_vars

----------------------------------------------------------------------------
(* Calls on one GenImages instance, in any order, with the source file      *)
(* rewritten or removed by its environment between calls.  A caller that    *)
(* catches the exception of a call may go on calling.                       *)

\* source documents: one holding the default colour twice, one without it
GenDocs == {DefaultColor \o <<"x">> \o DefaultColor, <<"#", "a">>, <<>>}
GenColors == {<<"#", "a">>, DefaultColor}
GenOutputs == {<<"f">>, <<"o", "/", "a">>, <<"o", "/", "s", "/", "b">>}
GenExts == {DefaultExt, <<"i", "c", "o">>}

InitApi ==
    /\ files = NoFiles
    /\ dirs0 = dirs
    /\ files0 = files
    /\ svg_cache = None
    /\ trace = <<>>
    /\ err = "none"
    /\ stdout = <<>>
    /\ ci = 1
    /\ si = 1
    /\ generated_files = <<>>
    /\ returned = NotReturned
    /\ call = NoCall

InitGen ==
    /\ src \in GenDocs \cup {NoFile}
    /\ dirs \in {{}, {<<"o">>}}
    /\ pc = "gen"
    /\ InitApi

\* gen.replace_colors(color_, original_color)
DoReplaceColors(color_, original_color) ==
    /\ call.n < MaxCalls
    /\ LET w == ReplaceColors(World, color_, original_color)
       IN  /\ SetWorld(w)
           /\ call' = [NoCall EXCEPT !.op = "replace_colors", !.color = color_,
                                     !.original = original_color,
                                     !.ret = IF Failed(w) THEN <<>> ELSE w.ret,
                                     !.n = call.n + 1]
    /\ UNCHANGED <<src, stdout, pc, ci, si, generated_files, returned, dirs0, files0>>

GenReplaceColors ==
    /\ pc = "gen"
    /\ \E c \in GenColors, o \in GenColors : DoReplaceColors(c, o)

\* gen.save(foreground_color, output, output_width, ext)
GenSave ==
    /\ pc = "gen"
    /\ call.n < MaxCalls
    /\ \E output \in GenOutputs, ext \in GenExts, ok \in BOOLEAN :
        LET w == Save(World, <<"#", "a">>, output, 16, ext, ok)
        IN  /\ SetWorld(w)
            /\ call' = [NoCall EXCEPT !.op = "save", !.color = <<"#", "a">>,
                                      !.output = output, !.width = 16, !.ext = ext,
                                      !.ok = ok, !.n = call.n + 1]
    /\ UNCHANGED <<src, stdout, pc, ci, si, generated_files, returned, dirs0, files0>>

\* the environment rewrites or removes the source file
EnvRewriteSource ==
    /\ pc = "gen"
    /\ src' \in (GenDocs \cup {NoFile}) \ {src}
    /\ UNCHANGED <<dirs, files, svg_cache, trace, err, stdout, pc, ci, si,
                   generated_files, returned, dirs0, files0, call>>

NextGen == GenReplaceColors \/ GenSave \/ EnvRewriteSource

SpecGen == InitGen /\ [][NextGen]_vars

----------------------------------------------------------------------------
(* replace_colors as a function of the document and its two arguments *)

Alphabet == {"#", "a", "b"}

\* the documents of at most MaxDocLen characters
Docs == UNION {[1..n -> Alphabet] : n \in 0..MaxDocLen}

\* colour arguments: empty, overlapping with itself, sharing characters, fresh
SampleColors == {<<>>, <<"a">>, <<"a", "a">>, <<"#", "a">>, <<"c">>}

InitReplace ==
    /\ src \in Docs
    /\ dirs = {}
    /\ pc = "replace"
    /\ InitApi

PureReplaceColors ==
    /\ pc = "replace"
    /\ \E c \in SampleColors, o \in SampleColors : DoReplaceColors(c, o)

NextReplace == PureReplaceColors

SpecReplace == InitReplace /\ [][NextReplace]_vars

----------------------------------------------------------------------------
(* write_readme on lists of paths that generate_logos produces *)

\* every path generate_logos appends to generated_files
GeneratedPool ==
    {FaviconOutput(sizes[s]) \o DotPng :
        s \in {k \in 1..Len(sizes) : \E c \in 1..Len(colors) : FaviconRule(colors[c], sizes[k])}}
    \cup
    {StandardOutput(COLOR_MAPPING(colors[c]), sizes[s]) \o DotPng :
        c \in 1..Len(colors), s \in {k \in 1..Len(sizes) : StandardRule(sizes[k])}}

ReadmeDirs == {ReadmeDir, <<"o", "u", "t">>}

InitReadme ==
    /\ src = NoFile
    /\ dirs \in {{}, {LogoDir}}
    /\ files \in {NoFiles, OldReadme}
    /\ dirs0 = dirs
    /\ files0 = files
    /\ svg_cache = None
    /\ trace = <<>>
    /\ err = "none"
    /\ stdout = <<>>
    /\ pc = "readme"
    /\ ci = 1
    /\ si = 1
    /\ generated_files = <<>>
    /\ returned = NotReturned
    /\ call = NoCall

\* write_readme(directory, image_files)
CallWriteReadme ==
    /\ pc = "readme"
    /\ call.n = 0
    /\ \E directory \in ReadmeDirs,
          image_files \in UNION {[1..n -> GeneratedPool] : n \in 0..MaxFiles} :
        LET w == WriteReadme(World, directory, image_files)
        IN  /\ SetWorld(w)
            /\ call' = [NoCall EXCEPT !.op = "write_readme", !.output = directory,
                                      !.list = image_files, !.n = 1]
    /\ UNCHANGED <<src, stdout, pc, ci, si, generated_files, returned, dirs0, files0>>

NextReadme == CallWriteReadme

SpecReadme == InitReadme /\ [][NextReadme]_vars


----------------------------------------------------------------------------
(* What the claims speak of *)

PngWrites == SelectSeq(trace, LAMBDA e : e.op = "write" /\ e.path # ReadmePath)
ReadmeWrites == SelectSeq(trace, LAMBDA e : e.op = "write" /\ e.path = ReadmePath)
Saves == SelectSeq(trace, LAMBDA e : e.op = "save")
Reads == SelectSeq(trace, LAMBDA e : e.op = "read")

PathsOf(entries) == [k \in 1..Len(entries) |-> entries[k].path]

\* the paths written by the saves made for the pair (C, S)
PathsFor(C, S) ==
    {trace[k].path : k \in {j \in 1..Len(trace) :
        trace[j].op = "write" /\ trace[j].arg = C /\ trace[j].width = S}}

IndexOf(seq, x) == CHOOSE i \in 1..Len(seq) : seq[i] = x

\* the place of the pair (color, size) in the color-major, size-minor order
Rank(color, size) == (IndexOf(colors, color) - 1) * Len(sizes) + IndexOf(sizes, size)

Favicon16Png == <<"l", "o", "g", "o", "/", "f", "a", "v", "i", "c", "o", "n", "/", "f", "a", "v", "i", "c", "o", "n", "-", "1", "6", ".", "p", "n", "g">>
White1024Png == <<"l", "o", "g", "o", "/", "s", "t", "a", "n", "d", "a", "r", "/", "w", "h", "i", "t", "e", "-", "1", "0", "2", "4", ".", "p", "n", "g">>
Dark512Png == <<"l", "o", "g", "o", "/", "s", "t", "a", "n", "d", "a", "r", "/", "d", "a", "r", "k", "-", "5", "1", "2", ".", "p", "n", "g">>
Secondary2048Png == <<"l", "o", "g", "o", "/", "s", "t", "a", "n", "d", "a", "r", "/", "s", "e", "c", "o", "n", "d", "a", "r", "y", "-", "2", "0", "4", "8", ".", "p", "n", "g">>

\* C1: after a run of generate_logos that completes without error, for every
\* colour C and size S of the lists, the favicon file of S has been written for
\* (C, S) iff S <= 128 and C is the primary colour, and the standard file of
\* (C, S) has been written iff S >= 512; no other PNG path is written.
C1_FilesIffRule ==
    pc = "done" =>
        /\ \A c \in 1..Len(colors), s \in 1..Len(sizes) :
            LET C == colors[c]
                S == sizes[s]
                fav == FaviconOutput(S) \o DotPng
                std == StandardOutput(COLOR_MAPPING(C), S) \o DotPng
            IN  /\ (fav \in PathsFor(C, S)) <=> (S <= 128 /\ C = Primary)
                /\ (std \in PathsFor(C, S)) <=> (S >= 512)
                /\ PathsFor(C, S) \subseteq {fav, std}
                /\ PathsFor(C, S) \subseteq DOMAIN files
                /\ \A p \in PathsFor(C, S) : files[p].kind = "png" /\ files[p].width = S
        /\ \A k \in 1..Len(PngWrites) :
            /\ \E c \in 1..Len(colors) : PngWrites[k].arg = colors[c]
            /\ \E s \in 1..Len(sizes) : PngWrites[k].width = sizes[s]
        /\ PathsFor(Primary, 16) = {Favicon16Png}
        /\ PathsFor(White, 1024) = {White1024Png}
        /\ PathsFor(Secondary, 64) = {}

\* C1's case: a completed run with the favicon of (primary, 16) on disk
C1_Witness ==
    /\ pc = "done"
    /\ Favicon16Png \in DOMAIN files
    /\ files[Favicon16Png].kind = "png"
    /\ White1024Png \in PathsFor(White, 1024)

\* C2: saves happen in color-major, size-minor order, and the list of paths
\* generate_logos builds and returns is exactly the written paths in the order
\* of writing.
C2_EmissionOrder ==
    /\ \A i, j \in 1..Len(Saves) :
        i < j => Rank(Saves[i].arg, Saves[i].width) <= Rank(Saves[j].arg, Saves[j].width)
    /\ \A k \in 1..Len(PngWrites) :
        \E i \in 1..Len(Saves) :
            /\ Saves[i].arg = PngWrites[k].arg
            /\ Saves[i].width = PngWrites[k].width
            /\ Saves[i].path \o DotPng = PngWrites[k].path
    /\ generated_files = PathsOf(PngWrites)
    /\ returned # NotReturned => returned = PathsOf(PngWrites)

\* C2's case: a list was returned, from the first colour's first standard size
\* to the last colour's last size
C2_Witness ==
    /\ returned # NotReturned
    /\ Len(returned) > 1
    /\ returned[1] = Dark512Png
    /\ returned[Len(returned)] = Secondary2048Png

\* C5 as claimed: when the source cannot be read the run aborts with no PNG, no
\* README.md, no completion message and no change to the filesystem.
C5_NoFilesystemChange ==
    (pc = "crashed" /\ err = "read_source") =>
        /\ Len(PngWrites) = 0
        /\ Len(ReadmeWrites) = 0
        /\ stdout = <<>>
        /\ files = files0
        /\ dirs = dirs0

\* C5, amended: when the source cannot be read the run aborts in the first save
\* with no PNG, no README.md and no completion message; no file is created or
\* changed, and the only change to the filesystem is that the directory
\* logo/standar (with its parent logo) exists.
C5_AbortBeforeOutput ==
    (pc = "crashed" /\ err = "read_source") =>
        /\ Len(PngWrites) = 0
        /\ Len(ReadmeWrites) = 0
        /\ stdout = <<>>
        /\ files = files0
        /\ dirs = dirs0 \cup {LogoDir, StandarDir}
        /\ Len(Saves) = 1
        /\ returned = NotReturned

\* C5's case: the run aborted on the unreadable source, having created a directory
C5_Witness ==
    /\ pc = "crashed"
    /\ err = "read_source"
    /\ src = NoFile
    /\ dirs # dirs0

\* C6: a rasterization failure in a save ends the run there: no later pair is
\* processed, generate_logos returns no list, README.md is not written (one
\* that exists keeps its content) and the completion message is not printed.
C6_RasterFailureAborts ==
    err = "svg2png" =>
        /\ pc = "crashed"
        /\ ~ENABLED Next
        /\ Saves[Len(Saves)].arg = colors[ci]
        /\ Saves[Len(Saves)].width = sizes[si]
        /\ trace[Len(trace)].op = "svg2png"
        /\ returned = NotReturned
        /\ Len(ReadmeWrites) = 0
        /\ (ReadmePath \in DOMAIN files) = (ReadmePath \in DOMAIN files0)
        /\ (ReadmePath \in DOMAIN files0 => files[ReadmePath] = files0[ReadmePath])
        /\ stdout = <<>>

\* C6's case: the rasterizer failed after some files had been written, with an
\* older README.md on disk
C6_Witness ==
    /\ err = "svg2png"
    /\ Len(PngWrites) >= 2
    /\ ReadmePath \in DOMAIN files0

\* C10: within one run every output path is written at most once, the list of
\* generated paths has no duplicates, and a complete run writes 23 distinct
\* paths: 5 favicon and 18 standard.
C10_PathsWrittenOnce ==
    /\ \A i, j \in 1..Len(PngWrites) : i # j => PngWrites[i].path # PngWrites[j].path
    /\ \A i, j \in 1..Len(generated_files) : i # j => generated_files[i] # generated_files[j]
    /\ pc = "done" =>
        /\ Len(returned) = 23
        /\ Cardinality({PngWrites[k].path : k \in 1..Len(PngWrites)}) = 23
        /\ Cardinality({k \in 1..Len(PngWrites) : Dirname(PngWrites[k].path) = FaviconDir}) = 5
        /\ Cardinality({k \in 1..Len(PngWrites) : Dirname(PngWrites[k].path) = StandarDir}) = 18

\* C10's case: a complete run, with both variants written
C10_Witness ==
    /\ pc = "done"
    /\ Len(PngWrites) = 23
    /\ \E k \in 1..Len(PngWrites) : Dirname(PngWrites[k].path) = FaviconDir


----------------------------------------------------------------------------
(* What the claims about single calls speak of *)

\* d occurs in s as a substring (the empty text occurs in every text)
OccursIn(s, d) ==
    \E i \in 1..(Len(s) + 1) :
        /\ i + Len(d) - 1 <= Len(s)
        /\ SubSeq(s, i, i + Len(d) - 1) = d

Chars(s) == {s[i] : i \in 1..Len(s)}

IsDigit(ch) == \E k \in 1..Len(Digits) : Digits[k] = ch

\* the text after the last '-' and before the extension of the file's name
NumericSuffix(path) ==
    LET name == Basename(path)
        dot == RFind(name, ".", Len(name))
        stem == IF dot = 0 THEN name ELSE SubSeq(name, 1, dot - 1)
        dash == RFind(stem, "-", Len(stem))
    IN  SubSeq(stem, dash + 1, Len(stem))

\* C3: the table write_readme writes has one row per path of the list, the
\* i-th row is that of the i-th path, and each row's size label is the numeric
\* suffix of its file's name.
C3_OneRowPerFile ==
    (call.op = "write_readme" /\ err = "none") =>
        LET p == Join(call.output, ReadmeName)
            rows == files[p].rows
        IN  /\ files[p].kind = "md"
            /\ Len(rows) = Len(call.list)
            /\ \A i \in 1..Len(rows) :
                /\ call.list[i] = Dirname(call.list[i]) \o <<"/">> \o rows[i].file_name
                /\ rows[i].size = NumericSuffix(call.list[i])
                /\ rows[i].size # <<>>
                /\ \A k \in 1..Len(rows[i].size) : IsDigit(rows[i].size[k])

\* C3's case: a README.md written for two different files, a favicon first
C3_Witness ==
    /\ call.op = "write_readme"
    /\ err = "none"
    /\ Len(call.list) = 2
    /\ call.list[1] = Favicon16Png
    /\ call.list[2] = White1024Png
    /\ files[ReadmePath].rows[1].size = <<"1", "6">>
    /\ files[ReadmePath].rows[2].size = <<"1", "0", "2", "4">>

\* the save call that a trace entry belongs to
SaveOf(k) == CHOOSE j \in 1..k :
    /\ trace[j].op = "save"
    /\ \A i \in (j + 1)..k : trace[i].op # "save"

\* C4: over any sequence of replace_colors and save calls on one instance the
\* source file is read at most once, by the first call that needs it and can
\* open it (a call that cannot open it raises and caches nothing); the cached
\* text is the text of that one read ever after, whatever becomes of the file,
\* and every recolouring starts from it.
C4_ReadOnceThenCached ==
    /\ Len(Reads) <= 1
    /\ (svg_cache = None) = (Len(Reads) = 0)
    /\ svg_cache # None => svg_cache = Reads[1].arg
    /\ (call.op \in {"replace_colors", "save"} /\ err = "none") => svg_cache # None
    /\ err = "read_source" => svg_cache = None
    /\ (call.op = "replace_colors" /\ err = "none") =>
            call.ret = StrReplace(Reads[1].arg, call.original, call.color)
    /\ \A k \in 1..Len(trace) :
        trace[k].op = "svg2png" =>
            trace[k].arg = StrReplace(Reads[1].arg, DefaultColor, trace[SaveOf(k)].arg)

\* C4's case: the first call read the file, the file was rewritten, and the
\* second call, a save, rasterized the recoloured cached text
C4_Witness ==
    /\ call.op = "save"
    /\ call.n = 2
    /\ err = "none"
    /\ trace[1].op = "read"
    /\ src # NoFile
    /\ src # svg_cache
    /\ trace[Len(trace) - 1].op = "svg2png"
    /\ trace[Len(trace) - 1].arg # StrReplace(src, DefaultColor, call.color)

\* C7: for any output path, also one with no directory component, and any
\* extension, a save whose document is read and rasterized makes the parent
\* directory exist and then writes the bytes to <output>.<ext>.
C7_SaveAnyOutputPath ==
    (call.op = "save" /\ err \notin {"read_source", "svg2png"}) =>
        LET path == call.output \o <<".">> \o call.ext
        IN  /\ err = "none"
            /\ DirExists(dirs, Dirname(path))
            /\ path \in DOMAIN files
            /\ files[path] = PngContent(StrReplace(svg_cache, DefaultColor, call.color),
                                        call.width)
            /\ \E i, j \in 1..Len(trace) :
                /\ i < j
                /\ trace[i].op = "makedirs"
                /\ trace[j] = Ent("write", path, call.color, call.width)
                /\ j = Len(trace)

\* C8: replace_colors(target, default) returns the cached document with every
\* occurrence of default replaced by target: the document itself when default
\* does not occur in it; a text without default when target shares no character
\* with it; and a text from which replacing a fresh target back gives the document.
C8_ReplaceEveryOccurrence ==
    (call.op = "replace_colors" /\ err = "none") =>
        LET doc == svg_cache
            d == call.original
            t == call.color
            r == call.ret
        IN  /\ doc = src
            /\ ~OccursIn(doc, d) => r = doc
            /\ (d # <<>> /\ t # <<>> /\ Chars(t) \cap Chars(d) = {}) => ~OccursIn(r, d)
            /\ (d # <<>> /\ t # <<>> /\ Chars(t) \cap (Chars(d) \cup Chars(doc)) = {}) =>
                    /\ Len(r) = Len(doc) + (Len(t) - Len(d)) *
                                  Cardinality({i \in 1..Len(r) : Occurs(r, t, i)})
                    /\ StrReplace(r, t, d) = doc

\* C8's case: the default colour occurs twice and both occurrences are replaced
C8_Witness ==
    /\ call.op = "replace_colors"
    /\ err = "none"
    /\ call.original = <<"#", "a">>
    /\ call.color = <<"c">>
    /\ svg_cache = <<"#", "a", "#", "a">>
    /\ call.ret = <<"c", "c">>

\* C9: recolouring with the target equal to the default returns the document,
\* however often it is applied.
C9_SameColorIdentity ==
    (call.op = "replace_colors" /\ err = "none" /\ call.color = call.original) =>
        /\ call.ret = svg_cache
        /\ call.ret = src

\* C9's case: the second call with target = default, on a document holding it
C9_Witness ==
    /\ call.op = "replace_colors"
    /\ err = "none"
    /\ call.n = 2
    /\ call.color = call.original
    /\ call.color = <<"#", "a">>
    /\ OccursIn(svg_cache, call.color)
    /\ call.ret = svg_cache

====
